---- MODULE Spec2Model ----
(***************************************************************************)
(* Connection pool (src/lib/pool.ts, MysqlClientPool over a deferred       *)
(* stack) and the client facade with its transaction wrapper               *)
(* (src/unnamed/part_000, Client).                                         *)
(*                                                                         *)
(* Two state machines share the module: Spec (any caller), ContractSpec    *)
(* (callers keeping the pool's contract), LiveSpec (ContractSpec with      *)
(* holders that give back) and AbandonSpec (ContractSpec with callers that *)
(* stop waiting) drive the pool and leave the facade's variables alone;    *)
(* ClientSpec drives the facade.                                           *)
(***************************************************************************)
EXTENDS Integers, Sequences, FiniteSets, TLC

\* ------------------------------------------------------------------ bounds
MaxConns == 2       \* connections the pool may construct in one run
MaxPoolSize == 2    \* largest maxSize tried
MaxStray == 1       \* release/destroy calls on a connection the caller does not hold
MaxStmts == 2       \* statements a transaction processor issues

Conns == 1..MaxConns
Callers == {"p1", "p2"}
Tasks == {"t1", "t2"}     \* concurrent calls of the facade
Slots == 1..MaxPoolSize   \* connection slots of the facade's pool
NoConn == 0

VARIABLES
    maxSize,      \* deferredStack.maxSize
    lazy,         \* connectionOptions.lazyInitialization
    elements,     \* deferredStack.elements: the idle stack
    queue,        \* deferredStack.queue: suspended pop() calls, by caller
    connected,    \* #connected
    connState,    \* connection.state of each constructed connection, "none" before
    out,          \* per connection: acquire() returns of it not yet given back
    connI,        \* loop index of the connect() in flight, -1 when none
    nConnect,     \* history: connect() calls made
    strayUse,     \* history: release/destroy calls on a connection nobody held
    returned,     \* history: some release() or destroy() was called
    destroyedSet, \* history: connections passed to destroy()
    recent,       \* history: connections release() put on the stack, oldest
                  \* first, since the last connect() push; an acquire() return
                  \* takes the newest off
    last,         \* the most recent call: [op, c, res]
    closeI,       \* index the for-of loop of the close() in flight has
                  \* reached, -1 when none
    trace,        \* history: what the most recent step of a call did, in the
                  \* order of its statements: events dispatched, stack and
                  \* connection calls made
    abandoned,    \* suspended acquire() calls whose caller stopped waiting
    lost          \* connections a pop() resolved for an abandoned acquire()

poolVars == <<maxSize, lazy, elements, queue, connected, connState, out, connI,
              nConnect, strayUse, returned, destroyedSet, recent, last,
              closeI, trace, abandoned, lost>>

VARIABLES
    fpool,        \* Client._pool is set
    poolSize,     \* config.poolSize of the pool held
    cwhere,       \* per slot of the facade's pool: "unborn", "idle", "removed",
                  \* or the task its connection is checked out to
    cstate,       \* per slot: connection.state of its connection
    fqueue,       \* tasks suspended in _pool.pop()
    task          \* per task: the facade call it runs

facadeVars == <<fpool, poolSize, cwhere, cstate, fqueue, task>>

vars == <<poolVars, facadeVars>>

\* ----------------------------------------------------------------- helpers
created == {c \in Conns : connState[c] # "none"}
NextConn == Cardinality(created) + 1
Range(s) == {s[i] : i \in 1..Len(s)}
\* connections some caller holds
HeldAll == {c \in Conns : out[c] > 0}
\* acquisitions outstanding
CheckedOut ==
    LET RECURSIVE Sum(_)
        Sum(S) == IF S = {} THEN 0
                  ELSE LET c == CHOOSE x \in S : TRUE IN out[c] + Sum(S \ {c})
    IN Sum(Conns)
Call(op, c, res) == [op |-> op, c |-> c, res |-> res]
\* a facade call: where it stands (pc), what it is (kind), the connection it
\* borrowed (c), the error caught in transaction() (pend), the error thrown
\* (err), the value returned (ret), the statements issued on the connection
\* (log), which of them failed (fail), whether the processor returned or
\* raised (proc), and the connection state the catch block read (seen)
NoCall == [pc |-> "idle", kind |-> "none", c |-> NoConn, pend |-> "none",
           err |-> "none", ret |-> "none", log |-> <<>>, fail |-> {},
           proc |-> "none", seen |-> "none"]

\* ------------------------------------------------ SqlxDeferredStack (library)
\* push(element) throws "Max pool size reached" when the stack is full
StackFull == Len(elements) >= maxSize
\* push(element) on a stack that is not full: the oldest suspended pop() is
\* resolved with the element (its acquire() returns it), otherwise the element
\* goes on top of the stack. o is the checked-out map the push applies to. A
\* pop() whose caller stopped waiting is resolved all the same: the element
\* then reaches no caller (l), and is checked out to none.
StackPush(o, c) ==
    IF queue # <<>>
    THEN [e |-> elements, q |-> Tail(queue),
          o |-> IF Head(queue) \in abandoned THEN o ELSE [o EXCEPT ![c] = @ + 1],
          a |-> abandoned \ {Head(queue)},
          l |-> IF Head(queue) \in abandoned THEN lost \cup {c} ELSE lost]
    ELSE [e |-> Append(elements, c), q |-> queue, o |-> o,
          a |-> abandoned, l |-> lost]
\* pop() takes the top of the stack
StackTop == elements[Len(elements)]
StackRest == SubSeq(elements, 1, Len(elements) - 1)

\* -------------------------------------------------------- MysqlClientPool
Init ==
    /\ maxSize \in 1..MaxPoolSize
    /\ lazy \in BOOLEAN
    /\ elements = <<>>
    /\ queue = <<>>
    /\ connected = FALSE
    /\ connState = [c \in Conns |-> "none"]
    /\ out = [c \in Conns |-> 0]
    /\ connI = -1
    /\ nConnect = 0
    /\ strayUse = 0
    /\ returned = FALSE
    /\ destroyedSet = {}
    /\ recent = <<>>
    /\ last = Call("new", NoConn, "ok")
    /\ closeI = -1
    /\ trace = <<>>
    /\ abandoned = {}
    /\ lost = {}
    /\ fpool = FALSE
    /\ poolSize = 0
    /\ cwhere = [c \in Slots |-> "unborn"]
    /\ cstate = [c \in Slots |-> "none"]
    /\ fqueue = <<>>
    /\ task = [t \in Tasks |-> NoCall]

\* connect(): the call is made; the loop starts at i = 0
ConnectCall ==
    /\ connI = -1
    /\ NextConn + maxSize - 1 <= MaxConns
    /\ connI' = 0
    /\ nConnect' = nConnect + 1
    /\ last' = Call("connect", NoConn, "pending")
    /\ trace' = <<>>
    /\ UNCHANGED facadeVars
    /\ UNCHANGED <<maxSize, lazy, elements, queue, connected, connState, out,
                   strayUse, returned, destroyedSet, recent, closeI, abandoned,
                   lost>>

\* what a push does in the order it happens: a pop() it resolves lets that
\* acquire() go on to dispatch its acquire event
PushTrace == IF ~StackFull /\ queue # <<>> THEN <<"push", "event:acquire">>
             ELSE <<"push">>

\* one iteration of connect()'s loop: construct a connection, open it unless
\* lazyInitialization, push it; the push throwing ends connect() with that
\* error; after the last iteration #connected = true
ConnectLoop(limit) ==
    /\ connI >= 0
    /\ closeI = -1
    /\ LET c == NextConn
           st == IF lazy THEN "Disconnected" ELSE "Connected"
       IN /\ connState' = [connState EXCEPT ![c] = st]
          /\ trace' = (IF lazy THEN <<"new">>
                       ELSE <<"new", "connect", "event:connect">>) \o PushTrace
          /\ IF StackFull
             THEN /\ connI' = -1
                  /\ last' = Call("connect", NoConn, "PoolExhausted")
                  /\ UNCHANGED <<elements, queue, out, connected, recent,
                                 abandoned, lost>>
             ELSE LET r == StackPush(out, c)
                  IN /\ elements' = r.e
                     /\ queue' = r.q
                     /\ out' = r.o
                     /\ abandoned' = r.a
                     /\ lost' = r.l
                     /\ recent' = <<>>
                     /\ IF connI + 1 < limit
                        THEN /\ connI' = connI + 1
                             /\ last' = Call("connect", NoConn, "pending")
                             /\ UNCHANGED connected
                        ELSE /\ connI' = -1
                             /\ connected' = TRUE
                             /\ last' = Call("connect", NoConn, "ok")
    /\ UNCHANGED facadeVars
    /\ UNCHANGED <<maxSize, lazy, nConnect, strayUse, returned, destroyedSet,
                   closeI>>

\* mutants of the loop bound (i <= maxSize, i < maxSize - 1)
ConnectIter_OneMore == ConnectLoop(maxSize + 1)
ConnectIter_OneLess == ConnectLoop(maxSize - 1)

ConnectIter == ConnectLoop(maxSize)

\* with lazyInitialization the loop has no await: nothing runs between its
\* iterations. Calls made while a close() is in flight are left out: the
\* other calls are made before close() is called or after it has ended.
Interleavable == (connI = -1 \/ ~lazy) /\ closeI = -1

\* the outcomes of the connection.close() awaited at index i of close()'s
\* loop: it resolves, or it throws; past the end of the stack none is awaited
CloseOutcomes(i) == IF i >= Len(elements) THEN {TRUE} ELSE BOOLEAN

\* close()'s for-of loop at index i of the stack: past the end close() is
\* done; otherwise the close event of elements[i] is dispatched and its
\* connection.close() awaited, which closes it, or throws (the connection
\* stays as it was), and the throw ends close() with that error. Nothing is
\* taken off the stack.
CloseLoop(i, ok) ==
    IF i >= Len(elements)
    THEN /\ closeI' = -1
         /\ last' = Call("close", NoConn, "ok")
         /\ trace' = <<>>
         /\ UNCHANGED connState
    ELSE LET c == elements[i + 1]
         IN /\ trace' = <<"event:close", "close">>
            /\ IF ok
               THEN /\ connState' = [connState EXCEPT ![c] = "Closed"]
                    /\ closeI' = i + 1
                    /\ last' = Call("close", c, "pending")
               ELSE /\ closeI' = -1
                    /\ UNCHANGED connState
                    /\ last' = Call("close", c, "eClose")

\* close() is called (one at a time): #connected = false, and the loop runs
\* up to its first await
CloseCall(ok) ==
    /\ Interleavable
    /\ connected' = FALSE
    /\ CloseLoop(0, ok)
    /\ UNCHANGED facadeVars
    /\ UNCHANGED <<maxSize, lazy, elements, queue, out, connI, nConnect,
                   strayUse, returned, destroyedSet, recent, abandoned, lost>>

\* the awaited connection.close() has resolved: the loop goes on
CloseIter(ok) ==
    /\ closeI >= 0
    /\ CloseLoop(closeI, ok)
    /\ UNCHANGED facadeVars
    /\ UNCHANGED <<maxSize, lazy, elements, queue, connected, out, connI,
                   nConnect, strayUse, returned, destroyedSet, recent,
                   abandoned, lost>>

\* acquire() by caller p: pop() returns the top of the stack, or suspends p
AcquireFrom(p, top, rest) ==
    /\ Interleavable
    /\ p \notin Range(queue)
    /\ IF elements # <<>>
       THEN /\ out' = [out EXCEPT ![top] = @ + 1]
            /\ elements' = rest
            /\ last' = Call("acquire", top, "immediate")
            /\ trace' = <<"pop", "event:acquire">>
            /\ recent' = IF recent = <<>> THEN recent
                         ELSE SubSeq(recent, 1, Len(recent) - 1)
            /\ UNCHANGED queue
       ELSE /\ queue' = Append(queue, p)
            /\ last' = Call("acquire", NoConn, "suspended")
            /\ trace' = <<"pop">>
            /\ UNCHANGED <<elements, out, recent>>
    /\ UNCHANGED facadeVars
    /\ UNCHANGED <<maxSize, lazy, connected, connState, connI, nConnect,
                   strayUse, returned, destroyedSet, closeI, abandoned, lost>>

\* mutants: the connection is read but left on the stack; the oldest idle
\* connection is taken instead of the newest
Acquire_NoPop(p) == AcquireFrom(p, StackTop, elements)
Acquire_Oldest(p) == AcquireFrom(p, Head(elements), Tail(elements))

Acquire(p) == AcquireFrom(p, StackTop, StackRest)

\* the caller of release(c)/destroy(c) gives up its hold on c, if it has one
GiveUp(c, isHolder) == IF isHolder THEN [out EXCEPT ![c] = @ - 1] ELSE out

\* release(client), by a caller holding it (isHolder) or not: the release
\* event, then push (pushed is what a push that does not throw gives); on "Max
\* pool size reached" the connection is closed and the error rethrown
ReleaseVia(c, isHolder, closedState, pushed) ==
    /\ Interleavable
    /\ c \in created
    /\ isHolder => out[c] > 0
    /\ strayUse' = strayUse + (IF isHolder THEN 0 ELSE 1)
    /\ strayUse' <= MaxStray
    /\ returned' = TRUE
    /\ IF StackFull
       THEN /\ connState' = [connState EXCEPT ![c] = closedState]
            /\ out' = GiveUp(c, isHolder)
            /\ last' = Call("release", c, "PoolExhausted")
            /\ trace' = <<"event:release">> \o PushTrace \o <<"close">>
            /\ UNCHANGED <<elements, queue, recent, abandoned, lost>>
       ELSE /\ elements' = pushed.e
            /\ queue' = pushed.q
            /\ out' = pushed.o
            /\ abandoned' = pushed.a
            /\ lost' = pushed.l
            /\ last' = Call("release", c, "ok")
            /\ trace' = <<"event:release">> \o PushTrace
            /\ recent' = IF queue # <<>> THEN recent
                         ELSE IF Len(recent) < MaxPoolSize THEN Append(recent, c)
                         ELSE Append(Tail(recent), c)
            /\ UNCHANGED connState
    /\ UNCHANGED facadeVars
    /\ UNCHANGED <<maxSize, lazy, connected, connI, nConnect, destroyedSet,
                   closeI>>

ReleaseClosing(c, isHolder, closedState) ==
    ReleaseVia(c, isHolder, closedState, StackPush(GiveUp(c, isHolder), c))

\* mutant: the overflow branch rethrows without closing the connection
Release_NoClose(c, isHolder) == ReleaseClosing(c, isHolder, connState[c])

\* mutant: the connection is put on deferredStack.elements directly, past the
\* suspended pop() calls
Release_BypassQueue(c, isHolder) ==
    ReleaseVia(c, isHolder, "Closed",
               [e |-> Append(elements, c), q |-> queue,
                o |-> GiveUp(c, isHolder), a |-> abandoned, l |-> lost])

Release(c, isHolder) == ReleaseClosing(c, isHolder, "Closed")

\* mutant: destroy() closes the connection and hands it back like release()
Destroy_PushBack(c, isHolder) ==
    /\ Interleavable
    /\ c \in created
    /\ isHolder => out[c] > 0
    /\ strayUse' = strayUse + (IF isHolder THEN 0 ELSE 1)
    /\ strayUse' <= MaxStray
    /\ returned' = TRUE
    /\ connState' = [connState EXCEPT ![c] = "Closed"]
    /\ destroyedSet' = destroyedSet \cup {c}
    /\ last' = Call("destroy", c, "ok")
    /\ trace' = <<"event:destroy", "close">> \o PushTrace
    /\ IF StackFull
       THEN /\ out' = GiveUp(c, isHolder)
            /\ UNCHANGED <<elements, queue, abandoned, lost>>
       ELSE LET r == StackPush(GiveUp(c, isHolder), c)
            IN /\ elements' = r.e /\ queue' = r.q /\ out' = r.o
               /\ abandoned' = r.a /\ lost' = r.l
    /\ UNCHANGED facadeVars
    /\ UNCHANGED <<maxSize, lazy, connected, connI, nConnect, recent, closeI>>

\* destroy(client): what it does, in the order did, leaves the connection
\* closed; nothing is pushed
DestroyDoing(c, isHolder, did) ==
    /\ Interleavable
    /\ c \in created
    /\ isHolder => out[c] > 0
    /\ strayUse' = strayUse + (IF isHolder THEN 0 ELSE 1)
    /\ strayUse' <= MaxStray
    /\ returned' = TRUE
    /\ connState' = [connState EXCEPT ![c] = "Closed"]
    /\ out' = GiveUp(c, isHolder)
    /\ destroyedSet' = destroyedSet \cup {c}
    /\ last' = Call("destroy", c, "ok")
    /\ trace' = did
    /\ UNCHANGED facadeVars
    /\ UNCHANGED <<maxSize, lazy, elements, queue, connected, connI, nConnect,
                   recent, closeI, abandoned, lost>>

\* mutant: the connection is closed before the destroy event is dispatched
Destroy_CloseFirst(c, isHolder) ==
    DestroyDoing(c, isHolder, <<"close", "event:destroy">>)

\* destroy(client): the destroy event, then connection.close()
Destroy(c, isHolder) == DestroyDoing(c, isHolder, <<"event:destroy", "close">>)

\* the caller of a suspended acquire() stops waiting for it (a deadline of
\* its own): the pool is told nothing, the pop() stays queued
Abandon(p) ==
    /\ Interleavable
    /\ p \in Range(queue)
    /\ p \notin abandoned
    /\ abandoned' = abandoned \cup {p}
    /\ UNCHANGED facadeVars
    /\ UNCHANGED <<maxSize, lazy, elements, queue, connected, connState, out,
                   connI, nConnect, strayUse, returned, destroyedSet, recent,
                   last, closeI, trace, lost>>

Next ==
    \/ ConnectCall
    \/ ConnectIter
    \/ \E ok \in CloseOutcomes(0) : CloseCall(ok)
    \/ \E ok \in CloseOutcomes(closeI) : CloseIter(ok)
    \/ \E p \in Callers : Acquire(p)
    \/ \E c \in Conns, isHolder \in BOOLEAN : Release(c, isHolder)
    \/ \E c \in Conns, isHolder \in BOOLEAN : Destroy(c, isHolder)

Spec == Init /\ [][Next]_vars

\* Callers that keep the caller's side of the pool's contract: connect() is
\* called once and awaited before the pool is used, and release()/destroy()
\* are called only on a connection the caller holds.
ConnectDone == nConnect = 1 /\ connI = -1
ContractNext ==
    \/ nConnect = 0 /\ ConnectCall
    \/ ConnectIter
    \/ \E ok \in CloseOutcomes(0) : CloseCall(ok)
    \/ \E ok \in CloseOutcomes(closeI) : CloseIter(ok)
    \/ \E p \in Callers : ConnectDone /\ Acquire(p)
    \/ \E c \in Conns : ConnectDone /\ Release(c, TRUE)
    \/ \E c \in Conns : ConnectDone /\ Destroy(c, TRUE)

ContractSpec == Init /\ [][ContractNext]_vars

\* ContractSpec with callers that give back what they hold: a connect() or
\* close() in flight goes on, and every checked-out connection is eventually
\* released or destroyed by its holder.
LiveSpec ==
    /\ ContractSpec
    /\ WF_vars(ConnectIter)
    /\ WF_vars(\E ok \in CloseOutcomes(closeI) : CloseIter(ok))
    /\ \A c \in Conns :
          SF_vars(ConnectDone /\ (Release(c, TRUE) \/ Destroy(c, TRUE)))

\* ContractSpec with callers that may stop waiting for a suspended acquire()
AbandonNext ==
    \/ ContractNext
    \/ \E p \in Callers : Abandon(p)
AbandonSpec == Init /\ [][AbandonNext]_vars

\* ------------------------------------------- ConnectionPool (pool of Client)
FIdle == {c \in Slots : cwhere[c] = "idle"}
FLive == {c \in Slots : cwhere[c] \notin {"unborn", "removed"}}
FFree == Slots \ FLive
\* returnToPool(): the oldest suspended pop() gets the connection, otherwise
\* it becomes idle; w is the ownership map, q the wait queue
PoolReturn(w, q, c) ==
    IF q # <<>> THEN [w |-> [w EXCEPT ![c] = Head(q)], q |-> Tail(q), to |-> Head(q)]
    ELSE [w |-> [w EXCEPT ![c] = "idle"], q |-> q, to |-> "none"]
\* removeFromPool(): the slot is given up
PoolRemove(w, c) == [w EXCEPT ![c] = "removed"]

\* ------------------------------------------------------------------ Client
FirstPc(kind) == IF kind = "transaction" THEN "begin" ELSE "work"
InFlight(t) == task[t].pc \notin {"idle", "done"}
Issue(t, stmt, ok) ==
    [task[t] EXCEPT !.log = Append(@, stmt),
                    !.fail = IF ok THEN @ ELSE @ \cup {stmt}]
\* a statement that fails may leave the connection torn down
AfterStmt(c, ok, closes) ==
    IF ~ok /\ closes THEN [cstate EXCEPT ![c] = "Closed"] ELSE cstate

\* connect(config): a pool of config.poolSize is held from now on
ClientConnect(size) ==
    /\ ~fpool
    /\ \A t \in Tasks : ~InFlight(t)
    /\ fpool' = TRUE
    /\ poolSize' = size
    /\ cwhere' = [c \in Slots |-> "unborn"]
    /\ cstate' = [c \in Slots |-> "none"]
    /\ fqueue' = <<>>
    /\ UNCHANGED task
    /\ UNCHANGED poolVars

\* close() on a client holding a pool: the pool closes its idle connections;
\* held tells whether _pool is still set afterwards
ClientCloseLeaving(held) ==
    /\ fpool
    /\ fpool' = held
    /\ cwhere' = [c \in Slots |-> IF c \in FIdle THEN "removed" ELSE cwhere[c]]
    /\ cstate' = [c \in Slots |-> IF c \in FIdle THEN "Closed" ELSE cstate[c]]
    /\ UNCHANGED <<poolSize, fqueue, task>>
    /\ UNCHANGED poolVars

\* mutant: the pool is closed but _pool is not cleared
ClientClose_KeepsPool == ClientCloseLeaving(TRUE)

\* close(): this._pool.close(); this._pool = undefined
ClientClose == ClientCloseLeaving(FALSE)

\* query(), execute() or transaction() is called: useConnection throws
\* "Unconnected" without a pool, otherwise pops a connection: an idle one, a
\* new one from createConnection() while the pool is below its size, or the
\* call suspends
UseConnection(t, kind, created_ok) ==
    /\ ~InFlight(t)
    /\ LET call == [NoCall EXCEPT !.kind = kind]
       IN IF ~fpool
          THEN /\ task' = [task EXCEPT ![t] = [call EXCEPT !.pc = "done",
                                                          !.err = "Unconnected"]]
               /\ UNCHANGED <<cwhere, cstate, fqueue>>
          ELSE IF FIdle # {}
          THEN \E c \in FIdle :
               /\ cwhere' = [cwhere EXCEPT ![c] = t]
               /\ task' = [task EXCEPT ![t] = [call EXCEPT !.pc = FirstPc(kind),
                                                          !.c = c]]
               /\ UNCHANGED <<cstate, fqueue>>
          ELSE IF Cardinality(FLive) < poolSize
          THEN LET c == CHOOSE x \in FFree : \A y \in FFree : x <= y
               IN IF created_ok
                  THEN /\ cwhere' = [cwhere EXCEPT ![c] = t]
                       /\ cstate' = [cstate EXCEPT ![c] = "Connected"]
                       /\ task' = [task EXCEPT ![t] =
                                     [call EXCEPT !.pc = FirstPc(kind), !.c = c]]
                       /\ UNCHANGED fqueue
                  ELSE /\ task' = [task EXCEPT ![t] = [call EXCEPT !.pc = "done",
                                                          !.err = "eConnect"]]
                       /\ UNCHANGED <<cwhere, cstate, fqueue>>
          ELSE /\ fqueue' = Append(fqueue, t)
               /\ task' = [task EXCEPT ![t] = [call EXCEPT !.pc = "waiting"]]
               /\ UNCHANGED <<cwhere, cstate>>
    /\ UNCHANGED <<fpool, poolSize>>
    /\ UNCHANGED poolVars

\* the fn of query()/execute(): one statement on the connection
Work(t, ok, closes) ==
    /\ task[t].pc = "work"
    /\ task' = [task EXCEPT ![t] =
                  [Issue(t, "STMT", ok) EXCEPT !.pc = "finally",
                      !.ret = IF ok THEN "rows" ELSE "none",
                      !.err = IF ok THEN "none" ELSE "eWork"]]
    /\ cstate' = AfterStmt(task[t].c, ok, closes)
    /\ UNCHANGED <<fpool, poolSize, cwhere, fqueue>>
    /\ UNCHANGED poolVars

\* transaction(): await connection.execute("BEGIN")
Begin(t, ok, closes) ==
    /\ task[t].pc = "begin"
    /\ task' = [task EXCEPT ![t] =
                  [Issue(t, "BEGIN", ok) EXCEPT
                      !.pc = IF ok THEN "proc" ELSE "catch",
                      !.pend = IF ok THEN "none" ELSE "eBegin"]]
    /\ cstate' = AfterStmt(task[t].c, ok, closes)
    /\ UNCHANGED <<fpool, poolSize, cwhere, fqueue>>
    /\ UNCHANGED poolVars

\* the processor issues a statement that succeeds
ProcStmt(t) ==
    /\ task[t].pc = "proc"
    /\ Len(task[t].log) < 1 + MaxStmts
    /\ task' = [task EXCEPT ![t] = Issue(t, "STMT", TRUE)]
    /\ UNCHANGED <<fpool, poolSize, cwhere, cstate, fqueue>>
    /\ UNCHANGED poolVars

\* the processor returns its value
ProcReturn(t) ==
    /\ task[t].pc = "proc"
    /\ task' = [task EXCEPT ![t] = [@ EXCEPT !.pc = "commit", !.proc = "returned"]]
    /\ UNCHANGED <<fpool, poolSize, cwhere, cstate, fqueue>>
    /\ UNCHANGED poolVars

\* the processor raises e, the connection torn down or not
ProcRaise(t, closes) ==
    /\ task[t].pc = "proc"
    /\ task' = [task EXCEPT ![t] = [@ EXCEPT !.pc = "catch", !.proc = "raised",
                                             !.pend = "eProc"]]
    /\ cstate' = AfterStmt(task[t].c, FALSE, closes)
    /\ UNCHANGED <<fpool, poolSize, cwhere, fqueue>>
    /\ UNCHANGED poolVars

\* await connection.execute("COMMIT"); return result
CommitWith(t, ok, closes, issued) ==
    /\ task[t].pc = "commit"
    /\ task' = [task EXCEPT ![t] =
                  [(IF issued THEN Issue(t, "COMMIT", ok) ELSE task[t]) EXCEPT
                      !.pc = IF ok THEN "finally" ELSE "catch",
                      !.ret = IF ok THEN "v" ELSE "none",
                      !.pend = IF ok THEN "none" ELSE "eCommit"]]
    /\ cstate' = AfterStmt(task[t].c, ok, closes)
    /\ UNCHANGED <<fpool, poolSize, cwhere, fqueue>>
    /\ UNCHANGED poolVars

\* mutant: the result is returned without COMMIT being issued
Commit_NotIssued(t, ok, closes) == CommitWith(t, TRUE, closes, FALSE)

Commit(t, ok, closes) == CommitWith(t, ok, closes, TRUE)

\* catch (error): ROLLBACK if rolls (the connection is still CONNECTED), then
\* throw error; a ROLLBACK that throws leaves the catch block with its own
\* error
CatchRolling(t, ok, closes, rolls) ==
    /\ task[t].pc = "catch"
    /\ LET c == task[t].c
           seen == [task[t] EXCEPT !.seen = cstate[c]]
       IN IF rolls
          THEN /\ task' = [task EXCEPT ![t] =
                             [seen EXCEPT
                                 !.log = Append(@, "ROLLBACK"),
                                 !.fail = IF ok THEN @ ELSE @ \cup {"ROLLBACK"},
                                 !.pc = "finally",
                                 !.err = IF ok THEN task[t].pend ELSE "eRollback"]]
               /\ cstate' = AfterStmt(c, ok, closes)
          ELSE /\ task' = [task EXCEPT ![t] =
                             [seen EXCEPT !.pc = "finally", !.err = task[t].pend]]
               /\ UNCHANGED cstate
    /\ UNCHANGED <<fpool, poolSize, cwhere, fqueue>>
    /\ UNCHANGED poolVars

\* mutant: ROLLBACK is issued whatever the connection's state
Catch_NoStateCheck(t, ok, closes) == CatchRolling(t, ok, closes, TRUE)

Catch(t, ok, closes) ==
    CatchRolling(t, ok, closes, cstate[task[t].c] = "Connected")

\* what the caller gets when the call has ended
Outcome(call) == [NoCall EXCEPT !.pc = "done", !.kind = call.kind,
                                !.err = call.err, !.ret = call.ret]

\* finally of useConnection: removeFromPool() if the connection is CLOSED,
\* returnToPool() otherwise; a suspended pop() that gets the connection goes on
FinallyWhen(t, cleans) ==
    /\ task[t].pc = "finally"
    /\ LET c == task[t].c
           done == [task EXCEPT ![t] = Outcome(task[t])]
       IN IF ~cleans
          THEN /\ task' = done
               /\ UNCHANGED <<cwhere, fqueue>>
          ELSE IF cstate[c] = "Closed"
          THEN /\ cwhere' = PoolRemove(cwhere, c)
               /\ task' = done
               /\ UNCHANGED fqueue
          ELSE LET r == PoolReturn(cwhere, fqueue, c)
               IN /\ cwhere' = r.w
                  /\ fqueue' = r.q
                  /\ task' = IF r.to = "none" THEN done
                             ELSE [done EXCEPT ![r.to] =
                                    [@ EXCEPT !.pc = FirstPc(task[r.to].kind), !.c = c]]
    /\ UNCHANGED <<fpool, poolSize, cstate>>
    /\ UNCHANGED poolVars

\* mutant: the cleanup runs after fn only when fn did not throw (no finally)
Finally_OnSuccessOnly(t) == FinallyWhen(t, task[t].err = "none")

Finally(t) == FinallyWhen(t, TRUE)

ClientNext ==
    \/ \E size \in 1..MaxPoolSize : ClientConnect(size)
    \/ ClientClose
    \/ \E t \in Tasks, kind \in {"query", "execute", "transaction"},
          ok \in BOOLEAN : UseConnection(t, kind, ok)
    \/ \E t \in Tasks, ok, closes \in BOOLEAN : Work(t, ok, closes)
    \/ \E t \in Tasks, ok, closes \in BOOLEAN : Begin(t, ok, closes)
    \/ \E t \in Tasks : ProcStmt(t)
    \/ \E t \in Tasks : ProcReturn(t)
    \/ \E t \in Tasks, closes \in BOOLEAN : ProcRaise(t, closes)
    \/ \E t \in Tasks, ok, closes \in BOOLEAN : Commit(t, ok, closes)
    \/ \E t \in Tasks, ok, closes \in BOOLEAN : Catch(t, ok, closes)
    \/ \E t \in Tasks : Finally(t)

\* the facade alone: the pool of src/lib/pool.ts stays as constructed
ClientInit == Init /\ maxSize = 1 /\ ~lazy
ClientSpec == ClientInit /\ [][ClientNext]_vars

\* ======================================================== pool: claims
NoDuplicates(s) == \A i, j \in 1..Len(s) : s[i] = s[j] => i = j
Idle == Range(elements)

\* C1 as stated: under any interleaving of connect, acquire, release, destroy
\* and close, idle connections plus checked-out connections never exceed
\* maxSize.
C1_BoundAnyInterleaving == Len(elements) + CheckedOut <= maxSize

\* C1 amended: the bound holds as long as connect() was called at most once
\* and every release/destroy was made by a caller holding the connection.
C1_BoundSingleConnectNoStray ==
    (nConnect <= 1 /\ strayUse = 0) => Len(elements) + CheckedOut <= maxSize

C1_Witness ==
    /\ ConnectDone /\ strayUse = 0 /\ returned
    /\ CheckedOut >= 1 /\ elements # <<>>
    /\ Len(elements) + CheckedOut = maxSize

\* The three exclusions C2 lists, and destroyed connections being neither idle
\* nor held.
Exclusive ==
    /\ NoDuplicates(elements)
    /\ Idle \cap HeldAll = {}
    /\ \A c \in Conns : out[c] <= 1
    /\ destroyedSet \cap (Idle \cup HeldAll) = {}

C3_AcquireUpToMaxSize ==
    /\ [](ConnectDone /\ ~returned =>
            /\ Len(elements) + CheckedOut = maxSize
            /\ queue # <<>> => CheckedOut = maxSize)
    /\ [][\A p \in Callers :
            Acquire(p) /\ ConnectDone /\ ~returned =>
                (last'.res = "suspended" <=> CheckedOut = maxSize)]_vars
    /\ [][Len(queue') < Len(queue) => last'.op = "release"]_vars

C3_Witness ==
    /\ ConnectDone /\ ~returned
    /\ maxSize = MaxPoolSize /\ CheckedOut = maxSize
    /\ queue # <<>> /\ last.res = "suspended"

C5_AcquireIsLifo ==
    [][\A p \in Callers :
         Acquire(p) /\ recent # <<>> /\ queue = <<>> =>
             /\ last'.res = "immediate"
             /\ last'.c = recent[Len(recent)]]_vars

C5_Witness ==
    /\ last = Call("acquire", 1, "immediate")
    /\ recent = <<2>> /\ elements = <<2>>

CloseEnded == last.op = "close" /\ closeI = -1

\* C11: close() sets connected to false, leaves every connection that was
\* idle when it was called Closed once it has ended, and changes the state of
\* no connection that is not idle (the checked-out ones).
C11_CloseClosesIdleOnly ==
    /\ [](last.op = "close" => ~connected)
    /\ [](CloseEnded => \A c \in Idle : connState[c] = "Closed")
    /\ [][last'.op = "close" =>
            \A c \in Conns \ Idle : connState'[c] = connState[c]]_vars

\* C12: close() never ends with an error, and a connection.close() that
\* fails does not keep the other idle connections from being closed.
C12_CloseNeverRaises ==
    /\ last.op = "close" => last.res # "eClose"
    /\ CloseEnded => \A c \in Idle \ {last.c} : connState[c] = "Closed"

\* a comes before b in what the most recent step did
Before(a, b) ==
    \E i, j \in 1..Len(trace) : i < j /\ trace[i] = a /\ trace[j] = b

\* C14: an acquire event is dispatched only after the pop() that took the
\* connection off the idle stack (or after the push that handed it to the
\* suspended pop()); release() dispatches the release event before it
\* attempts the push, also when the push then throws; destroy() and close()
\* dispatch their event before they call the connection's close().
C14_EventsOrdered ==
    /\ \A i \in 1..Len(trace) :
          trace[i] = "event:acquire" =>
              \E j \in 1..(i - 1) : trace[j] \in {"pop", "push"}
    /\ last.op = "acquire" /\ last.res = "immediate" =>
          Before("pop", "event:acquire")
    /\ last.op = "release" => trace[1] = "event:release"
                               /\ Before("event:release", "push")
    /\ last.op = "destroy" => Before("event:destroy", "close")
    /\ last.op = "close" /\ last.c # NoConn => Before("event:close", "close")

\* a release() by the holder whose push threw, on a pool that was closed
C14_Witness ==
    /\ last.op = "release" /\ last.res = "PoolExhausted"
    /\ trace = <<"event:release", "push", "close">>
    /\ strayUse = 0 /\ ~connected

\* C15: release(c) by its holder while some acquire() is suspended succeeds,
\* resumes the oldest suspended acquire() and no other, and hands it c (which
\* stays checked out, and goes on to its acquire event); c is not put on the
\* idle collection and no other connection changes hands.
C15_ReleaseResumesOneWaiter ==
    [][\A c \in Conns :
         Release(c, TRUE) /\ queue # <<>> =>
             /\ last'.res = "ok"
             /\ queue' = Tail(queue)
             /\ out' = out /\ out'[c] >= 1
             /\ elements' = elements /\ c \notin Range(elements')
             /\ Before("push", "event:acquire")']_vars

\* maxSize = 2, both connections taken, a third acquire() suspended, and the
\* release of one of them has resumed it
C15_Witness ==
    /\ maxSize = 2 /\ ConnectDone /\ destroyedSet = {}
    /\ last.op = "release" /\ last.res = "ok"
    /\ trace = <<"event:release", "push", "event:acquire">>
    /\ out[last.c] = 1 /\ CheckedOut = 2
    /\ elements = <<>> /\ queue = <<>>

\* caller p has an acquire() suspended
Waiting(p) == p \in Range(queue)
\* every connection of the pool has been destroyed: no slot is left to wait for
NoSlotLeft == ConnectDone /\ destroyedSet = created

C18_AbandonedConsumesNoSlot ==
    ConnectDone =>
        Len(elements) + CheckedOut = maxSize - Cardinality(destroyedSet)

\* C19: no connection the pool has closed (in destroy(), close() or the
\* overflow branch of release()) is on the idle stack, and acquire() returns
\* none.
C19_NeverHandsOutClosed ==
    /\ \A c \in Idle : connState[c] # "Closed"
    /\ last.op = "acquire" /\ last.res = "immediate" =>
           connState[last.c] # "Closed"

\* ====================================================== facade: claims
\* transaction()'s fn has returned or thrown; only the cleanup is left
TxnEnded(t) == task[t].kind = "transaction" /\ task[t].pc = "finally"
\* BEGIN, the processor's statements, COMMIT, and nothing else
CommittedLog(log) ==
    /\ Len(log) >= 2
    /\ log[1] = "BEGIN"
    /\ log[Len(log)] = "COMMIT"
    /\ \A i \in 2..(Len(log) - 1) : log[i] = "STMT"
\* the cleanup changes neither the value returned nor the error thrown
CleanupKeepsOutcome ==
    \A t \in Tasks :
        Finally(t) => task'[t].ret = task[t].ret /\ task'[t].err = task[t].err

C8_ProcessorErrorRollsBack ==
    \A t \in Tasks :
        TxnEnded(t) /\ task[t].proc = "raised" =>
            /\ task[t].err = "eProc"
            /\ task[t].seen = "Connected" =>
                   task[t].log[Len(task[t].log)] = "ROLLBACK"
            /\ task[t].seen # "Connected" =>
                   \A i \in 1..Len(task[t].log) : task[t].log[i] # "ROLLBACK"

\* C9: when the ROLLBACK statement itself fails, transaction() still throws
\* the error the processor raised, not the rollback's.
C9_RollbackFailureSwallowed ==
    \A t \in Tasks :
        TxnEnded(t) /\ task[t].proc = "raised" /\ "ROLLBACK" \in task[t].fail =>
            task[t].err = task[t].pend

\* C10: a call that is not in flight (or still waiting for a connection) has
\* no connection checked out, and the cleanup of every call that borrowed one
\* removes the connection from the pool if its state is Closed and otherwise
\* returns it (to the idle set, or to the oldest suspended pop()).
C10_BorrowAlwaysGivenBack ==
    /\ [](\A t \in Tasks :
            ~InFlight(t) \/ task[t].pc = "waiting" =>
                \A c \in Slots : cwhere[c] # t)
    /\ [](\A t \in Tasks :
            InFlight(t) /\ task[t].pc # "waiting" => cwhere[task[t].c] = t)
    /\ [][\A t \in Tasks :
            Finally(t) =>
                cwhere'[task[t].c] =
                    IF cstate[task[t].c] = "Closed" THEN "removed"
                    ELSE IF fqueue = <<>> THEN "idle" ELSE Head(fqueue)]_vars

C10_Witness ==
    \E t \in Tasks, c \in Slots :
        /\ task[t].pc = "done" /\ task[t].kind = "transaction"
        /\ task[t].err = "eRollback"
        /\ cwhere[c] = "removed" /\ cstate[c] = "Closed"
        /\ \A u \in Tasks : ~InFlight(u)

\* C13: a query(), execute() or transaction() call fails with "Unconnected"
\* exactly when no pool is held, and then ends at once leaving the pool's
\* connections and wait queue untouched; no pool is held at the start, none
\* after close(), one after connect(), and nothing else changes that.
C13_UnconnectedIffNoPool ==
    /\ ~fpool
    /\ [][\A t \in Tasks, kind \in {"query", "execute", "transaction"},
             ok \in BOOLEAN :
            UseConnection(t, kind, ok) =>
                /\ task'[t].err = "Unconnected" <=> ~fpool
                /\ ~fpool => /\ task'[t].pc = "done" /\ task'[t].c = NoConn
                             /\ cwhere' = cwhere /\ fqueue' = fqueue]_vars
    /\ [][ClientClose => ~fpool']_vars
    /\ [][(\E size \in 1..MaxPoolSize : ClientConnect(size)) => fpool']_vars
    /\ [][fpool' # fpool =>
            ClientClose \/ \E size \in 1..MaxPoolSize : ClientConnect(size)]_vars

\* both calls failed with "Unconnected" on a client whose pool had served a
\* call and was closed
C13_Witness ==
    /\ ~fpool
    /\ \A t \in Tasks : task[t].pc = "done" /\ task[t].err = "Unconnected"
    /\ \E c \in Slots : cwhere[c] = "removed" /\ cstate[c] = "Closed"

\* statement stmt was issued in the run of transaction() by task t
Issued(t, stmt) == \E i \in 1..Len(task[t].log) : task[t].log[i] = stmt

\* C20: in a run of transaction(), COMMIT is issued only after a BEGIN that
\* succeeded and a processor that returned; ROLLBACK is the last statement
\* when issued, and is not issued after a COMMIT that succeeded; once the body
\* has ended, ROLLBACK was issued exactly when an error was caught (from
\* BEGIN, the processor or COMMIT) with the connection still Connected.
C20_CommitAndRollbackOrder ==
    \A t \in Tasks :
        task[t].kind = "transaction" /\ InFlight(t) =>
            LET log == task[t].log
            IN /\ \A i \in 1..Len(log) :
                     log[i] = "COMMIT" =>
                         /\ i >= 2 /\ log[1] = "BEGIN"
                         /\ "BEGIN" \notin task[t].fail
                         /\ task[t].proc = "returned"
               /\ \A i \in 1..Len(log) :
                     log[i] = "ROLLBACK" =>
                         /\ i = Len(log)
                         /\ Issued(t, "COMMIT") => "COMMIT" \in task[t].fail
               /\ TxnEnded(t) =>
                     (Issued(t, "ROLLBACK") <=>
                         task[t].pend # "none" /\ task[t].seen = "Connected")

\* one call rolled back after its COMMIT failed, the other after its BEGIN
\* failed
C20_Witness ==
    /\ TxnEnded("t1") /\ TxnEnded("t2")
    /\ task["t1"].log = <<"BEGIN", "STMT", "COMMIT", "ROLLBACK">>
    /\ task["t1"].pend = "eCommit"
    /\ task["t2"].log = <<"BEGIN", "ROLLBACK">>
    /\ task["t2"].pend = "eBegin"
====
